---- MODULE Spec2Model ----
(***************************************************************************)
(* Model of the i18n babel plugin (src/index.js): the JSXElement visitor   *)
(* that lowers <$_> and <$i18nDoNotTranslate> elements to calls, with its  *)
(* helpers fixWhitespace, concatStrings and printWarning.                  *)
(*                                                                         *)
(* JavaScript strings that the code inspects character by character (the   *)
(* JSXText values) are sequences of one-character strings.  AST nodes are  *)
(* records with a "type" field.  A property that a node does not have      *)
(* reads as Undefined, as in JavaScript.                                   *)
(***************************************************************************)
EXTENDS Integers, Sequences, FiniteSets, TLC

VARIABLES
    pc,            \* position of the visitor / of fixWhitespace
    pathNode,      \* path.node: the node the tree holds at the visited path
    node,          \* const node
    file,          \* this.file.opts.filename, as a sequence of path pieces
    openName,      \* const openName
    ti,            \* the for-loop index i over tagNames (1-based)
    ci,            \* index of the next child handed to the forEach callback
    args,          \* const args
    strings,       \* let strings
    warnings,      \* lines written by console.warn
    replaceCount,  \* number of path.replaceWith calls made
    wsInput,       \* fixWhitespace's parameter string
    wsString       \* the value flowing through fixWhitespace's replace chain

vars == <<pc, pathNode, node, file, openName, ti, ci, args, strings, warnings,
          replaceCount, wsInput, wsString>>

visitorVars == <<pathNode, node, file, openName, ti, ci, args, strings,
                 warnings, replaceCount>>

----------------------------------------------------------------------------
(* Bounds of the model *)

MaxChildren == 3
MaxLen == 5

----------------------------------------------------------------------------
(* JavaScript values *)

Undefined == [type |-> "undefined"]

TypeError == [type |-> "TypeError"]

NL == "\n"
SP == " "
TAB == "\t"

\* the characters matched by \s in a JavaScript regular expression
IsSpace(c) == c \in {SP, TAB, NL}

Chars == {"a", SP, TAB, NL}

----------------------------------------------------------------------------
(* fixWhitespace: three String.prototype.replace calls *)

\* first index >= i of s that is not whitespace (Len(s)+1 when there is none):
\* where a greedy \s* that starts at i stops
RECURSIVE SkipSpace(_, _)
SkipSpace(s, i) ==
    IF i > Len(s) \/ ~IsSpace(s[i]) THEN i ELSE SkipSpace(s, i + 1)

\* MatchAt with the trailing \s* forgotten: the match of /\s*\n/ ends right
\* after the last line feed of the whitespace
MatchAtNoTrail(s, i) ==
    LET e == SkipSpace(s, i)
        feeds == {k \in i..(e - 1) : s[k] = NL}
    IN  IF feeds = {} THEN 0
        ELSE (CHOOSE k \in feeds : \A m \in feeds : m <= k) + 1

\* The end (exclusive) of the match of /\s*\n\s*/ attempted at index i, or 0
\* when the attempt fails.  The first \s* may stop before any line feed of the
\* whitespace it can consume; whichever it backtracks to, the second greedy
\* \s* runs to the end of that whitespace.
MatchAt(s, i) ==
    LET e == SkipSpace(s, i)
    IN  IF \E k \in i..(e - 1) : s[k] = NL THEN e ELSE 0

\* .replace(/^\s*\n\s*/, "")
ReplaceStart(s) ==
    LET e == MatchAt(s, 1)
    IN  IF e = 0 THEN s ELSE SubSeq(s, e, Len(s))

\* .replace(/\s*\n\s*$/, ""): the leftmost index whose attempt reaches the end
ReplaceEnd(s) ==
    LET starts == {i \in 1..Len(s) : MatchAt(s, i) = Len(s) + 1}
    IN  IF starts = {} THEN s
        ELSE LET i == CHOOSE x \in starts : \A y \in starts : x <= y
             IN  SubSeq(s, 1, i - 1)

\* .replace(/\s*\n\s*/g, " ") scanning from index pos
RECURSIVE ReplaceAllFrom(_, _)
ReplaceAllFrom(s, pos) ==
    LET starts == {i \in pos..Len(s) : MatchAt(s, i) # 0}
    IN  IF starts = {} THEN SubSeq(s, pos, Len(s))
        ELSE LET i == CHOOSE x \in starts : \A y \in starts : x <= y
             IN  SubSeq(s, pos, i - 1) \o <<SP>> \o ReplaceAllFrom(s, MatchAt(s, i))

\* the replace without the g flag: only the leftmost match is replaced
ReplaceMiddleFirstOnly(s) ==
    LET starts == {i \in 1..Len(s) : MatchAt(s, i) # 0}
    IN  IF starts = {} THEN s
        ELSE LET i == CHOOSE x \in starts : \A y \in starts : x <= y
             IN  SubSeq(s, 1, i - 1) \o <<SP>> \o SubSeq(s, MatchAt(s, i), Len(s))

ReplaceMiddle(s) == ReplaceAllFrom(s, 1)

fixWhitespace(string) == ReplaceMiddle(ReplaceEnd(ReplaceStart(string)))

----------------------------------------------------------------------------
(* babel.types: node builders and type tests.  A built node has no loc.   *)

nullLiteral ==
    [type |-> "NullLiteral", loc |-> Undefined, trailingComments |-> Undefined]

identifier(name) ==
    [type |-> "Identifier", name |-> name, loc |-> Undefined,
     trailingComments |-> Undefined]

stringLiteral(value) ==
    [type |-> "StringLiteral", value |-> value, loc |-> Undefined,
     trailingComments |-> Undefined]

objectProperty(key, value) ==
    [type |-> "ObjectProperty", key |-> key, value |-> value,
     loc |-> Undefined, trailingComments |-> Undefined]

objectExpression(properties) ==
    [type |-> "ObjectExpression", properties |-> properties,
     loc |-> Undefined, trailingComments |-> Undefined]

binaryExpression(operator, left, right) ==
    [type |-> "BinaryExpression", operator |-> operator, left |-> left,
     right |-> right, loc |-> Undefined, trailingComments |-> Undefined]

callExpression(callee, arguments) ==
    [type |-> "CallExpression", callee |-> callee, arguments |-> arguments,
     loc |-> Undefined, trailingComments |-> Undefined]

isJSXText(n) == n.type = "JSXText"

isJSXExpressionContainer(n) == n.type = "JSXExpressionContainer"

isJSXEmptyExpression(n) == n.type = "JSXEmptyExpression"

----------------------------------------------------------------------------
(* concatStrings *)

\* strings.reduce(function(previous, current) {...}) without an initial
\* value, on a non-empty array: acc is the fold of strings[1..i-1]
RECURSIVE ReduceFrom(_, _, _)
ReduceFrom(strs, acc, i) ==
    IF i > Len(strs) THEN acc
    ELSE ReduceFrom(strs, binaryExpression("+", acc, strs[i]), i + 1)

\* The returned node, or TypeError when the function throws: reduce of an
\* empty array throws, and so does reading .start or .end of a loc that is
\* undefined.
concatStrings(strs) ==
    IF Len(strs) = 1 THEN strs[1]
    ELSE IF Len(strs) = 0 THEN TypeError
    ELSE LET expression == ReduceFrom(strs, strs[1], 2)
             first == strs[1].loc
             last == strs[Len(strs)].loc
         IN  IF first = Undefined \/ last = Undefined THEN TypeError
             ELSE [expression EXCEPT
                       !.loc = [start |-> first.start, end |-> last.end]]

----------------------------------------------------------------------------
(* printWarning *)

DirName == "/plugin"

\* filename.replace(__dirname, ""): drops the first occurrence of __dirname;
\* a file name is a sequence of pieces, DirName standing for the text of
\* __dirname
RECURSIVE RemoveFirst(_, _)
RemoveFirst(pieces, piece) ==
    IF pieces = <<>> THEN <<>>
    ELSE IF Head(pieces) = piece THEN Tail(pieces)
    ELSE <<Head(pieces)>> \o RemoveFirst(Tail(pieces), piece)

\* printWarning without the replace of __dirname
printWarningNoReplace(f, n, message) ==
    LET line == n.loc.start.line
        column == n.loc.start.column
        filename == f
        location == filename \o <<"@", ToString(line), ":", ToString(column)>>
    IN  <<"WARNING: ">> \o location \o <<" ">> \o message

\* printWarning reading the end of the node's location instead of its start
printWarningAtEnd(f, n, message) ==
    LET line == n.loc.end.line
        column == n.loc.end.column
        filename == RemoveFirst(f, DirName)
        location == filename \o <<"@", ToString(line), ":", ToString(column)>>
    IN  <<"WARNING: ">> \o location \o <<" ">> \o message

\* the line handed to console.warn, as the sequence of concatenated pieces
printWarning(f, n, message) ==
    LET line == n.loc.start.line
        column == n.loc.start.column
        filename == RemoveFirst(f, DirName)
        location == filename \o <<"@", ToString(line), ":", ToString(column)>>
    IN  <<"WARNING: ">> \o location \o <<" ">> \o message

----------------------------------------------------------------------------
(* The trees handed to the visitor *)

\* tagNames with a name that is not reserved
tagNamesWithDiv == <<"$_", "div">>

\* tagNames naming one tag twice
tagNamesRepeated == <<"$_", "$_">>

tagNames == <<"$_", "$i18nDoNotTranslate">>

TagNameSet == {"$_", "$i18nDoNotTranslate", "div"}

NumericLiteral(v) ==
    [type |-> "NumericLiteral", value |-> v, loc |-> Undefined,
     trailingComments |-> Undefined]

JSXAttribute(name, expression) ==
    [type |-> "JSXAttribute",
     name |-> [type |-> "JSXIdentifier", name |-> name],
     value |-> [type |-> "JSXExpressionContainer", expression |-> expression]]

\* a={1} b={2} c={3}
AttrSet ==
    {JSXAttribute("a", NumericLiteral(1)), JSXAttribute("b", NumericLiteral(2)),
     JSXAttribute("c", NumericLiteral(3))}

\* every choice and order of attributes with distinct names
AttrSeqs ==
    {s \in UNION {[1..n -> AttrSet] : n \in 0..Cardinality(AttrSet)} :
        \A i, j \in DOMAIN s : i # j => s[i].name.name # s[j].name.name}

JSXText(value) == [type |-> "JSXText", value |-> value]

\* {/* note */}
CommentChild ==
    [type |-> "JSXExpressionContainer",
     expression |-> [type |-> "JSXEmptyExpression"],
     innerComments |-> <<"note">>]

\* {x}
ExprChild ==
    [type |-> "JSXExpressionContainer",
     expression |-> identifier("x"),
     innerComments |-> Undefined]

\* <b/>
ElementChild ==
    [type |-> "JSXElement", name |-> "b", loc |-> Undefined,
     trailingComments |-> Undefined]

Foo == <<"f", "o", "o">>
Bar == <<"b", "a", "r">>
Blank == <<NL, SP>>

ChildSet ==
    {JSXText(Foo), JSXText(Bar), JSXText(Blank),
     CommentChild, ExprChild, ElementChild}

ChildSeqs == UNION {[1..n -> ChildSet] : n \in 0..MaxChildren}

Loc(l1, c1, l2, c2) ==
    [start |-> [line |-> l1, column |-> c1], end |-> [line |-> l2, column |-> c2]]

\* the files transformed: the name in file.opts.filename and where the
\* visited element lies in the file
SourceSet ==
    {[filename |-> <<DirName, "/test/input.jsx">>, loc |-> Loc(1, 0, 1, 9)],
     [filename |-> <<"unknown">>, loc |-> Loc(2, 4, 5, 8)],
     [filename |-> <<"/backup", DirName, "/test/input.jsx">>,
      loc |-> Loc(3, 2, 3, 20)]}

JSXElement(name, attributes, children, loc) ==
    [type |-> "JSXElement",
     openingElement |-> [name |-> [type |-> "JSXIdentifier", name |-> name],
                         attributes |-> attributes],
     children |-> children,
     loc |-> loc]

Elements(loc) ==
    {JSXElement(n, a, c, loc) :
        n \in TagNameSet, a \in AttrSeqs, c \in ChildSeqs}

----------------------------------------------------------------------------
(* The JSXElement visitor.  args holds the argument nodes themselves; that   *)
(* a child's expression pushed to args is the same object as the one under  *)
(* node.children is not tracked: node keeps the tree as it was handed in.   *)

\* attributes.map building the properties in reverse
RECURSIVE MapAttributesReversed(_)
MapAttributesReversed(attributes) ==
    IF attributes = <<>> THEN <<>>
    ELSE LET attr == Head(attributes)
             key == attr.name
             value == attr.value
         IN  MapAttributesReversed(Tail(attributes))
                 \o <<objectProperty(identifier(key.name), value.expression)>>

\* attributes.map(function(attr) {...})
RECURSIVE MapAttributes(_)
MapAttributes(attributes) ==
    IF attributes = <<>> THEN <<>>
    ELSE LET attr == Head(attributes)
             key == attr.name
             value == attr.value
         IN  <<objectProperty(identifier(key.name), value.expression)>>
                 \o MapAttributes(Tail(attributes))

\* let options
Options(attributes) ==
    IF Len(attributes) > 0 THEN objectExpression(MapAttributes(attributes))
    ELSE nullLiteral

\* if (strings.length > 0) { args.push(concatStrings(strings)); }
\* threw: concatStrings throws; otherwise args is the new args
Flush(as, strs) ==
    IF Len(strs) > 0
    THEN LET joined == concatStrings(strs)
         IN  IF joined = TypeError THEN [threw |-> TRUE, args |-> as]
             ELSE [threw |-> FALSE, args |-> Append(as, joined)]
    ELSE [threw |-> FALSE, args |-> as]

Init ==
    /\ pc = "start"
    /\ \E source \in SourceSet :
          /\ file = source.filename
          /\ pathNode \in Elements(source.loc)
    /\ node = Undefined
    /\ openName = ""
    /\ ti = 0
    /\ ci = 0
    /\ args = <<>>
    /\ strings = <<>>
    /\ warnings = <<>>
    /\ replaceCount = 0
    /\ wsInput = <<>>
    /\ wsString = <<>>

\* the traversal calls the visitor: node, openName, tagNames, i = 0
Enter ==
    /\ pc = "start"
    /\ node' = pathNode
    /\ openName' = pathNode.openingElement.name.name
    /\ ti' = 1
    /\ pc' = "for"
    /\ UNCHANGED <<pathNode, file, ci, args, strings, warnings, replaceCount,
                   wsInput, wsString>>

\* openName !== tagName: next i
SkipTag ==
    /\ pc = "for"
    /\ ti <= Len(tagNames)
    /\ openName # tagNames[ti]
    /\ ti' = ti + 1
    /\ UNCHANGED <<pc, pathNode, node, file, openName, ci, args, strings,
                   warnings, replaceCount, wsInput, wsString>>

\* openName === tagName: the empty check, options, args and strings
MatchTag ==
    /\ pc = "for"
    /\ ti <= Len(tagNames)
    /\ openName = tagNames[ti]
    /\ LET tagName == tagNames[ti]
           message == <<"<", tagName, ">", " has no children">>
       IN  warnings' = IF Len(node.children) = 0
                       THEN Append(warnings, printWarning(file, node, message))
                       ELSE warnings
    /\ args' = <<Options(node.openingElement.attributes)>>
    /\ strings' = <<>>
    /\ ci' = 1
    /\ pc' = "children"
    /\ UNCHANGED <<pathNode, node, file, openName, ti, replaceCount,
                   wsInput, wsString>>

\* forEach callback, t.isJSXText(child)
ChildText ==
    /\ pc = "children"
    /\ ci <= Len(node.children)
    /\ LET child == node.children[ci]
           string == fixWhitespace(child.value)
       IN  /\ isJSXText(child)
           /\ strings' = IF string # <<>>
                         THEN Append(strings, stringLiteral(string))
                         ELSE strings
    /\ ci' = ci + 1
    /\ UNCHANGED <<pc, pathNode, node, file, openName, ti, args, warnings,
                   replaceCount, wsInput, wsString>>

\* ChildComment without the JSXEmptyExpression test: the empty expression is
\* pushed like a real one
ChildCommentPushed ==
    /\ pc = "children"
    /\ ci <= Len(node.children)
    /\ LET child == node.children[ci]
       IN  /\ ~isJSXText(child)
           /\ isJSXExpressionContainer(child)
           /\ isJSXEmptyExpression(child.expression)
           /\ args' = Append(args, child.expression)
    /\ ci' = ci + 1
    /\ UNCHANGED <<pc, pathNode, node, file, openName, ti, strings, warnings,
                   replaceCount, wsInput, wsString>>

\* forEach callback, a container of a JSXEmptyExpression
ChildComment ==
    /\ pc = "children"
    /\ ci <= Len(node.children)
    /\ LET child == node.children[ci]
       IN  /\ ~isJSXText(child)
           /\ isJSXExpressionContainer(child)
           /\ isJSXEmptyExpression(child.expression)
           /\ args' = [args EXCEPT
                          ![Len(args)].trailingComments = child.innerComments]
    /\ ci' = ci + 1
    /\ UNCHANGED <<pc, pathNode, node, file, openName, ti, strings, warnings,
                   replaceCount, wsInput, wsString>>

\* ChildExpression without the flush of the pending strings
ChildExpressionNoFlush ==
    /\ pc = "children"
    /\ ci <= Len(node.children)
    /\ LET child == node.children[ci]
       IN  /\ ~isJSXText(child)
           /\ isJSXExpressionContainer(child)
           /\ ~isJSXEmptyExpression(child.expression)
           /\ args' = Append(args, child.expression)
    /\ ci' = ci + 1
    /\ UNCHANGED <<pc, pathNode, node, file, openName, ti, strings, warnings,
                   replaceCount, wsInput, wsString>>

\* forEach callback, a container of a real expression
ChildExpression ==
    /\ pc = "children"
    /\ ci <= Len(node.children)
    /\ LET child == node.children[ci]
           flushed == Flush(args, strings)
       IN  /\ ~isJSXText(child)
           /\ isJSXExpressionContainer(child)
           /\ ~isJSXEmptyExpression(child.expression)
           /\ IF flushed.threw
              THEN /\ pc' = "threw"
                   /\ UNCHANGED <<args, strings, ci>>
              ELSE /\ args' = Append(flushed.args, child.expression)
                   /\ strings' = <<>>
                   /\ ci' = ci + 1
                   /\ pc' = pc
    /\ UNCHANGED <<pathNode, node, file, openName, ti, warnings, replaceCount,
                   wsInput, wsString>>

\* forEach callback, else if (strings.length > 0)
ChildFlush ==
    /\ pc = "children"
    /\ ci <= Len(node.children)
    /\ LET child == node.children[ci]
           joined == concatStrings(strings)
       IN  /\ ~isJSXText(child)
           /\ ~isJSXExpressionContainer(child)
           /\ Len(strings) > 0
           /\ IF joined = TypeError
              THEN /\ pc' = "threw"
                   /\ UNCHANGED <<args, strings, ci>>
              ELSE /\ args' = Append(args, joined)
                   /\ strings' = <<>>
                   /\ ci' = ci + 1
                   /\ pc' = pc
    /\ UNCHANGED <<pathNode, node, file, openName, ti, warnings, replaceCount,
                   wsInput, wsString>>

\* forEach callback, the final else
ChildOther ==
    /\ pc = "children"
    /\ ci <= Len(node.children)
    /\ LET child == node.children[ci]
       IN  /\ ~isJSXText(child)
           /\ ~isJSXExpressionContainer(child)
           /\ ~(Len(strings) > 0)
           /\ args' = Append(args, child)
    /\ ci' = ci + 1
    /\ UNCHANGED <<pc, pathNode, node, file, openName, ti, strings, warnings,
                   replaceCount, wsInput, wsString>>

\* Finish without call.loc = node.loc
FinishNoLoc ==
    /\ pc = "children"
    /\ ci > Len(node.children)
    /\ LET flushed == Flush(args, strings)
           tagName == tagNames[ti]
           callee == identifier(tagName)
       IN  IF flushed.threw
           THEN /\ pc' = "threw"
                /\ UNCHANGED <<args, pathNode, replaceCount, ti>>
           ELSE /\ args' = flushed.args
                /\ pathNode' = callExpression(callee, flushed.args)
                /\ replaceCount' = replaceCount + 1
                /\ ti' = ti + 1
                /\ pc' = "for"
    /\ UNCHANGED <<node, file, openName, ci, strings, warnings,
                   wsInput, wsString>>

\* after forEach: the remaining strings, the call, path.replaceWith, next i
Finish ==
    /\ pc = "children"
    /\ ci > Len(node.children)
    /\ LET flushed == Flush(args, strings)
           tagName == tagNames[ti]
           callee == identifier(tagName)
       IN  IF flushed.threw
           THEN /\ pc' = "threw"
                /\ UNCHANGED <<args, pathNode, replaceCount, ti>>
           ELSE /\ args' = flushed.args
                /\ pathNode' = [callExpression(callee, flushed.args)
                                   EXCEPT !.loc = node.loc]
                /\ replaceCount' = replaceCount + 1
                /\ ti' = ti + 1
                /\ pc' = "for"
    /\ UNCHANGED <<node, file, openName, ci, strings, warnings,
                   wsInput, wsString>>

\* i reaches tagNames.length: the visitor returns
Return ==
    /\ pc = "for"
    /\ ti > Len(tagNames)
    /\ pc' = "done"
    /\ UNCHANGED <<pathNode, node, file, openName, ti, ci, args, strings,
                   warnings, replaceCount, wsInput, wsString>>

Next ==
    \/ Enter
    \/ SkipTag
    \/ MatchTag
    \/ ChildText
    \/ ChildComment
    \/ ChildExpression
    \/ ChildFlush
    \/ ChildOther
    \/ Finish
    \/ Return

Spec == Init /\ [][Next]_vars

----------------------------------------------------------------------------
(* The legacy variant of the visitor (src/unnamed/part_000), which returns  *)
(* the call instead of replacing the node.  Its parser hands text children  *)
(* over as Literal nodes, which have a loc.                                 *)

\* the legacy parser's node for the i-th child of the same source
LegacyChild(child, i) ==
    IF child.type = "JSXText"
    THEN [type |-> "Literal", value |-> child.value, loc |-> Loc(i, 0, i, 1),
          trailingComments |-> Undefined]
    ELSE child

\* the legacy parser's tree for the same source
LegacyTree(element) ==
    [element EXCEPT
        !.children = [i \in DOMAIN element.children |->
                         LegacyChild(element.children[i], i)]]

\* fixWhitespace of the legacy variant: rewrites the Literal's value in place
LegacyFixWhitespace(string) ==
    [string EXCEPT
        !.value = ReplaceMiddle(ReplaceEnd(ReplaceStart(string.value)))]

\* concatStrings of the legacy variant
LegacyConcatStrings(strs) ==
    IF Len(strs) = 1 THEN strs[1]
    ELSE IF Len(strs) = 0 THEN TypeError
    ELSE LET expression == ReduceFrom(strs, strs[1], 2)
             first == strs[1].loc
             last == strs[Len(strs)].loc
         IN  IF first = Undefined \/ last = Undefined THEN TypeError
             ELSE [expression EXCEPT
                       !.loc = [start |-> first.start, end |-> last.end]]

\* attributes.map(function (attr) { return t.property("init", key, value) })
RECURSIVE LegacyMapAttributes(_)
LegacyMapAttributes(attributes) ==
    IF attributes = <<>> THEN <<>>
    ELSE LET attr == Head(attributes)
         IN  <<[type |-> "Property", kind |-> "init", key |-> attr.name,
                value |-> attr.value]>>
                 \o LegacyMapAttributes(Tail(attributes))

\* var options
LegacyOptions(attributes) ==
    IF Len(attributes) > 0
    THEN objectExpression(LegacyMapAttributes(attributes))
    ELSE [type |-> "Literal", value |-> [type |-> "null"], loc |-> Undefined,
          trailingComments |-> Undefined]

\* if (strings.length > 0) { args.push(concatStrings(strings)); }
LegacyFlush(as, strs) ==
    IF Len(strs) > 0
    THEN LET joined == LegacyConcatStrings(strs)
         IN  IF joined = TypeError THEN [threw |-> TRUE, args |-> as]
             ELSE [threw |-> FALSE, args |-> Append(as, joined)]
    ELSE [threw |-> FALSE, args |-> as]

\* node.children.forEach(function (child) {...}) from the i-th child on, then
\* the flush after the loop
RECURSIVE LegacyForEach(_, _, _, _)
LegacyForEach(children, i, as, strs) ==
    IF i > Len(children) THEN LegacyFlush(as, strs)
    ELSE LET child == children[i]
         IN  IF child.type = "Literal"
             THEN LET string == LegacyFixWhitespace(child)
                  IN  LegacyForEach(children, i + 1, as,
                          IF string.value # <<>> THEN Append(strs, string)
                          ELSE strs)
             ELSE IF child.type = "JSXExpressionContainer"
                     /\ child.expression.type = "JSXEmptyExpression"
             THEN LegacyForEach(children, i + 1, as, strs)
             ELSE LET flushed == LegacyFlush(as, strs)
                  IN  IF flushed.threw THEN flushed
                      ELSE LegacyForEach(children, i + 1,
                               Append(flushed.args, child), <<>>)

\* the body of the for loop for tagNames[i]: the call returned, TypeError
\* when concatStrings throws, Undefined when no tag name matches
RECURSIVE LegacyFor(_, _)
LegacyFor(element, i) ==
    IF i > Len(tagNames) THEN Undefined
    ELSE IF element.openingElement.name.name # tagNames[i]
    THEN LegacyFor(element, i + 1)
    ELSE LET options == LegacyOptions(element.openingElement.attributes)
             result == LegacyForEach(element.children, 1, <<options>>, <<>>)
         IN  IF result.threw THEN TypeError
             ELSE [callExpression(identifier(tagNames[i]), result.args)
                      EXCEPT !.loc = element.loc]

\* JSXElement: function (node, parent, scope, file)
LegacyJSXElement(element) == LegacyFor(element, 1)

----------------------------------------------------------------------------
(* fixWhitespace on its own: one step per replace call *)

\* "  \n   Hello\n   World  \n  "
HelloWorldRaw ==
    <<SP, SP, NL, SP, SP, SP, "H", "e", "l", "l", "o", NL, SP, SP, SP,
      "W", "o", "r", "l", "d", SP, SP, NL, SP, SP>>

\* "Hello World"
HelloWorld == <<"H", "e", "l", "l", "o", SP, "W", "o", "r", "l", "d">>

\* "Hello   World"
HelloSpaced ==
    <<"H", "e", "l", "l", "o", SP, SP, SP, "W", "o", "r", "l", "d">>

WsInputs ==
    UNION {[1..n -> Chars] : n \in 0..MaxLen} \cup {HelloWorldRaw, HelloSpaced}

WsInit ==
    /\ pc = "ws0"
    /\ wsInput \in WsInputs
    /\ wsString = wsInput
    /\ pathNode = Undefined
    /\ node = Undefined
    /\ file = <<>>
    /\ openName = ""
    /\ ti = 0
    /\ ci = 0
    /\ args = <<>>
    /\ strings = <<>>
    /\ warnings = <<>>
    /\ replaceCount = 0

WsReplaceStart ==
    /\ pc = "ws0"
    /\ wsString' = ReplaceStart(wsString)
    /\ pc' = "ws1"
    /\ UNCHANGED <<visitorVars, wsInput>>

WsReplaceEnd ==
    /\ pc = "ws1"
    /\ wsString' = ReplaceEnd(wsString)
    /\ pc' = "ws2"
    /\ UNCHANGED <<visitorVars, wsInput>>

WsReplaceMiddle ==
    /\ pc = "ws2"
    /\ wsString' = ReplaceMiddle(wsString)
    /\ pc' = "wsdone"
    /\ UNCHANGED <<visitorVars, wsInput>>

WsNext ==
    \/ WsReplaceStart
    \/ WsReplaceEnd
    \/ WsReplaceMiddle

WsSpec == WsInit /\ [][WsNext]_vars

----------------------------------------------------------------------------
(* Properties *)

ReservedNames == {"$_", "$i18nDoNotTranslate"}

\* the name of the element the tree held when the visitor was called
ElementName == node.openingElement.name.name

Visited == pc \in {"for", "children", "done", "threw"}

Matching == Visited /\ ElementName \in ReservedNames

\* a node without the comments hung on it
Bare(n) == [n EXCEPT !.trailingComments = Undefined]

\* the literals of a join tree, left to right
RECURSIVE Leaves(_)
Leaves(n) ==
    IF n.type = "BinaryExpression" THEN Leaves(n.left) \o Leaves(n.right)
    ELSE <<n>>

(* C6 *)

SameClass(a, b) == IsSpace(a) <=> IsSpace(b)

\* last index of the maximal run of whitespace, or of non-whitespace, that
\* starts at i
RECURSIVE RunEnd(_, _)
RunEnd(s, i) ==
    IF i < Len(s) /\ SameClass(s[i], s[i + 1]) THEN RunEnd(s, i + 1) ELSE i

\* the reference normalisation, run by run: a whitespace run with a line
\* break is dropped at either end of the string and becomes one space
\* elsewhere, every other run is kept
RECURSIVE NormalizeRuns(_, _)
NormalizeRuns(s, i) ==
    IF i > Len(s) THEN <<>>
    ELSE LET j == RunEnd(s, i)
             breaks == IsSpace(s[i]) /\ \E k \in i..j : s[k] = NL
             out == IF ~breaks THEN SubSeq(s, i, j)
                    ELSE IF i = 1 \/ j = Len(s) THEN <<>>
                    ELSE <<SP>>
         IN  out \o NormalizeRuns(s, j + 1)

\* C6: when fixWhitespace returns, its result is the reference normalisation
\* of its argument: a leading and a trailing whitespace run with a line break
\* are removed, every other whitespace run with a line break is one space,
\* and whitespace runs without a line break are untouched; in particular
\* "  \n   Hello\n   World  \n  " gives "Hello World" and "Hello   World"
\* is returned unchanged.
C6_FixWhitespaceIsReference ==
    pc = "wsdone" =>
        /\ wsString = NormalizeRuns(wsInput, 1)
        /\ wsInput = HelloWorldRaw => wsString = HelloWorld
        /\ wsInput = HelloSpaced => wsString = HelloSpaced

C6_Witness ==
    /\ pc = "wsdone"
    /\ wsInput = HelloWorldRaw
    /\ wsString = HelloWorld

(* C1 *)

\* C1: while the tree holds an element whose opening-tag name is neither
\* reserved name, no step of the visitor replaces it, warns, or changes the
\* element with its attributes and children.
C1_NonMatchingIsNoOp ==
    [][(/\ pathNode.type = "JSXElement"
        /\ pathNode.openingElement.name.name \notin ReservedNames)
       => /\ pathNode' = pathNode
          /\ replaceCount' = replaceCount
          /\ warnings' = warnings
          /\ args' = args]_vars

C1_Witness ==
    /\ pc = "done"
    /\ ElementName = "div"
    /\ Len(node.children) > 0
    /\ Len(node.openingElement.attributes) > 0
    /\ pathNode = node
    /\ replaceCount = 0
    /\ warnings = <<>>

(* C2 *)

AttrNames(attributes) == [i \in DOMAIN attributes |-> attributes[i].name.name]

RefersTo(warning, position) ==
    \E k \in 1..(Len(warning) - 3) :
        /\ warning[k] = "@"
        /\ warning[k + 1] = ToString(position.line)
        /\ warning[k + 2] = ":"
        /\ warning[k + 3] = ToString(position.column)

IsCommentOnly(child) ==
    /\ child.type = "JSXExpressionContainer"
    /\ child.expression.type = "JSXEmptyExpression"

\* C8: the step that handles a comment-only expression container leaves the
\* number of arguments and the pending strings as they are and sets the
\* trailing comments of the last argument pushed so far to the container's
\* inner comments; <$_>{/* note */}</$_> becomes a call whose only argument
\* is the null options argument carrying the comment.
C8_CommentOnlyChildAddsNoArgument ==
    /\ [][(/\ pc = "children"
           /\ ci <= Len(node.children)
           /\ IsCommentOnly(node.children[ci]))
          => /\ Len(args') = Len(args)
             /\ args'[Len(args)].trailingComments = node.children[ci].innerComments
             /\ Bare(args'[Len(args)]) = Bare(args[Len(args)])
             /\ \A k \in 1..(Len(args) - 1) : args'[k] = args[k]
             /\ strings' = strings
             /\ pc' = "children"]_vars
    /\ [](( /\ pc = "done"
            /\ Matching
            /\ Len(node.openingElement.attributes) = 0
            /\ node.children = <<CommentChild>>)
          => pathNode.arguments =
                 <<[nullLiteral EXCEPT !.trailingComments = <<"note">>]>>)

C8_Witness ==
    /\ pc = "done"
    /\ Matching
    /\ node.children = <<JSXText(Foo), ExprChild, CommentChild>>
    /\ Len(pathNode.arguments) = 3
    /\ pathNode.arguments[3].trailingComments = <<"note">>
    /\ pathNode.arguments[1].trailingComments = Undefined

(* C5 *)

IsRealExpression(child) ==
    /\ child.type = "JSXExpressionContainer"
    /\ child.expression.type # "JSXEmptyExpression"

RECURSIVE Survivors(_)
Survivors(children) ==
    IF children = <<>> THEN <<>>
    ELSE LET child == Head(children)
             own == IF child.type = "JSXText" \/ IsCommentOnly(child) THEN <<>>
                    ELSE IF IsRealExpression(child) THEN <<child.expression>>
                    ELSE <<child>>
         IN  own \o Survivors(Tail(children))

\* the arguments that are not text runs, without comments
RECURSIVE NonText(_)
NonText(as) ==
    IF as = <<>> THEN <<>>
    ELSE LET own == IF Head(as).type \in {"StringLiteral", "BinaryExpression"}
                    THEN <<>> ELSE <<Bare(Head(as))>>
         IN  own \o NonText(Tail(as))

\* C3: when the visitor returns from a matching element, the arguments after
\* the options argument that are not text runs are exactly the children that
\* are neither text nor comment-only (the contained expression for a real
\* expression container), one each, in source order.
C3_StructuredChildrenInOrder ==
    (Matching /\ pc = "done") =>
        NonText(Tail(pathNode.arguments)) = Survivors(node.children)

(* C9 *)

\* the next step calls concatStrings(strings)
JoinDue ==
    /\ pc = "children"
    /\ Len(strings) > 0
    /\ \/ ci > Len(node.children)
       \/ /\ node.children[ci].type # "JSXText"
          /\ ~IsCommentOnly(node.children[ci])

\* ((s1 + s2) + s3) + ...: every right operand is a literal
RECURSIVE LeftAssociated(_)
LeftAssociated(n) ==
    n.type = "BinaryExpression" =>
        /\ n.operator = "+"
        /\ n.right.type = "StringLiteral"
        /\ LeftAssociated(n.left)

\* C9: whenever the visitor is about to join the pending strings, concatStrings
\* returns the literal itself for a run of one, and for a run of two or more
\* the left-associated + tree over the literals in order, located from the
\* first literal's start to the last literal's end.
C9_JoinerResult ==
    JoinDue =>
        LET result == concatStrings(strings)
        IN  IF Len(strings) = 1 THEN result = strings[1]
            ELSE /\ result.type = "BinaryExpression"
                 /\ LeftAssociated(result)
                 /\ Leaves(result) = strings
                 /\ result.loc # Undefined
                 /\ result.loc.start = strings[1].loc.start
                 /\ result.loc.end = strings[Len(strings)].loc.end

(* C10 *)

\* C10: the visitor never throws.
C10_NeverThrows == pc # "threw"

(* C11 *)

\* C11: whenever the tree holds the replacement call, the call carries the
\* location of the element it replaced, start and end, so the call starts on
\* the line on which the element's opening tag starts.
C11_CallKeepsLocation ==
    pathNode.type = "CallExpression" =>
        /\ Matching
        /\ pathNode.loc = node.loc
        /\ pathNode.loc.start.line = node.loc.start.line

C11_Witness ==
    /\ pc = "done"
    /\ ElementName = "$_"
    /\ Len(node.children) > 0
    /\ pathNode.type = "CallExpression"
    /\ node.loc = Loc(2, 4, 5, 8)
    /\ pathNode.loc = Loc(2, 4, 5, 8)

(* C12 *)

\* the file name without a leading plugin directory
PrefixRemoved(f) ==
    IF f # <<>> /\ f[1] = DirName THEN Tail(f) ELSE f

\* the file name without the first occurrence of the plugin directory
FirstRemoved(f) ==
    LET at == {i \in DOMAIN f : f[i] = DirName}
    IN  IF at = {} THEN f
        ELSE LET k == CHOOSE i \in at : \A j \in at : i <= j
             IN  SubSeq(f, 1, k - 1) \o SubSeq(f, k + 1, Len(f))

\* <line>:<column> of the element's start, then " <tagName> has no children"
\* with the tag name between angle brackets
PositionAndMessage ==
    <<"@", ToString(node.loc.start.line), ":", ToString(node.loc.start.column),
      " ", "<", ElementName, ">", " has no children">>

\* C12 as stated: every line warned is exactly
\* <relative-path>@<line>:<column> <message>, the path being the file name
\* with the plugin directory prefix removed.
C12_LineAsStated ==
    \A k \in DOMAIN warnings :
        warnings[k] = PrefixRemoved(file) \o PositionAndMessage

\* C12 amended: every line warned is exactly
\* WARNING: <relative-path>@<line>:<column> <message>, with the node's start
\* line and column, the path being the file name with the first occurrence
\* of the plugin directory removed, and the message of an empty tag being
\* <tagName> has no children.
C12_LineWithWarningPrefix ==
    \A k \in DOMAIN warnings :
        warnings[k] = <<"WARNING: ">> \o FirstRemoved(file) \o PositionAndMessage

C12_Witness ==
    /\ pc = "done"
    /\ file = <<DirName, "/test/input.jsx">>
    /\ Len(warnings) = 1
    /\ warnings[1] = <<"WARNING: ", "/test/input.jsx", "@", "1", ":", "0", " ",
                       "<", ElementName, ">", " has no children">>

(* C13 *)

\* what an argument of the current variant derives from: the normalized
\* strings of a text run, or the structured child
Origin(a) ==
    IF a.type \in {"StringLiteral", "BinaryExpression"}
    THEN [kind |-> "text",
          text |-> [i \in DOMAIN Leaves(a) |-> Leaves(a)[i].value],
          child |-> Undefined]
    ELSE [kind |-> "child", text |-> <<>>, child |-> Bare(a)]

\* the same for an argument of the legacy variant, which passes an
\* expression container itself where the current variant passes its expression
LegacyOrigin(a) ==
    IF a.type \in {"Literal", "BinaryExpression"}
    THEN [kind |-> "text",
          text |-> [i \in DOMAIN Leaves(a) |-> Leaves(a)[i].value],
          child |-> Undefined]
    ELSE IF a.type = "JSXExpressionContainer"
    THEN [kind |-> "child", text |-> <<>>, child |-> Bare(a.expression)]
    ELSE [kind |-> "child", text |-> <<>>, child |-> Bare(a)]

\* C13: when the current visitor has run on a matching element, it has
\* produced a call, the legacy visitor returns a call for the same source,
\* and the two positional argument lists have the same length and, entry by
\* entry, derive from the same children with the same normalized text.
C13_VariantsAgree ==
    (Matching /\ pc \in {"done", "threw"}) =>
        LET legacy == LegacyJSXElement(LegacyTree(node))
        IN  /\ pc = "done"
            /\ legacy.type = "CallExpression"
            /\ Len(pathNode.arguments) = Len(legacy.arguments)
            /\ \A k \in 2..Len(legacy.arguments) :
                  Origin(pathNode.arguments[k]) = LegacyOrigin(legacy.arguments[k])

(* C14 *)

\* C14: the string fixWhitespace returns holds no line feed, and
\* fixWhitespace applied to it returns it unchanged.
C14_FixWhitespaceIdempotent ==
    pc = "wsdone" =>
        /\ \A k \in DOMAIN wsString : wsString[k] # NL
        /\ fixWhitespace(wsString) = wsString

C14_Witness ==
    /\ pc = "wsdone"
    /\ wsInput = <<"a", NL, "a", NL, "a">>
    /\ wsString = <<"a", SP, "a", SP, "a">>
    /\ fixWhitespace(wsString) = wsString

====
